---- MODULE Spec2Model ----
(***************************************************************************)
(* Model of student_analysis.py: a Streamlit script that is executed from  *)
(* top to bottom on every run.  A run either finds an uploaded CSV file    *)
(* and derives the dashboard from it, or finds none and shows the sample   *)
(* table.  Data frames are sequences of rows; a row is a function from     *)
(* column names to values.  Percentages and rounded means are integers in  *)
(* hundredths (8500 is 85.00); unrounded means are fractions.              *)
(***************************************************************************)
EXTENDS Integers, Sequences, FiniteSets, TLC

VARIABLES uploaded_file, earlier_upload, pc, df, shown, error, avg_percentage, df_long,
          subject_corr, grade_counts, subject_avgs, top_students,
          bottom_students, selected_student, student_data, class_avg,
          student_info, profile_chart, class_performance, report

vars == <<uploaded_file, earlier_upload, pc, df, shown, error, avg_percentage, df_long,
          subject_corr, grade_counts, subject_avgs, top_students,
          bottom_students, selected_student, student_data, class_avg,
          student_info, profile_chart, class_performance, report>>

derived == <<df, avg_percentage, df_long, subject_corr, grade_counts,
             subject_avgs, top_students, bottom_students, selected_student,
             student_data, class_avg, student_info, profile_chart,
             class_performance, report>>

(* State (lines of student_analysis.py):                                  *)
(*   uploaded_file      41  uploaded_file                                  *)
(*   pc                 43-224  position of the run in the module body     *)
(*   df                 45  df                                             *)
(*   shown              48-242  the page: what the st.* calls displayed    *)
(*   error              54-142  KeyError raised by a column lookup         *)
(*   avg_percentage     58  avg_percentage                                 *)
(*   df_long            66-71  df_long                                     *)
(*   subject_corr       99  subject_corr                                   *)
(*   grade_counts       107  grade_counts                                  *)
(*   subject_avgs       122  subject_avgs                                  *)
(*   top_students       137  top_students                                  *)
(*   bottom_students    142  bottom_students                               *)
(*   selected_student   148  selected_student                              *)
(*   student_data       151  student_data                                  *)
(*   class_avg          152  class_avg                                     *)
(*   student_info       153  student_info                                  *)
(*   profile_chart      155-178  fig, ax (profile figure)                  *)
(*   class_performance  211-212  class_performance                         *)
(*   report             206-215  output (Excel workbook)                   *)
(* earlier_upload is a history variable: what the uploader held during the *)
(* previous run of the session.  The script itself keeps nothing of it.    *)

(* A name that is not bound in the script's namespace is None; a bound     *)
(* name holds Some(value).  Derived numbers are fractions, and the missing *)
(* number NaN is the fraction 0/0.                                         *)
None == <<>>
Some(v) == <<v>>
Val(x) == x[1]
NaN == [num |-> 0, den |-> 0]
Number(n) == [num |-> n, den |-> 1]
Hundredths(n) == [num |-> n, den |-> 100]
IsNumber(x) == x.den # 0

-----------------------------------------------------------------------------
(* Column vocabulary of the script.                                        *)

id_vars == <<"Student_ID", "Name", "Class", "Gender">>
value_vars == <<"Math", "Science", "English">>
grade_order == <<"A+", "A", "B", "C", "D", "F">>
ranking_columns == <<"Name", "Class", "Math", "Science", "English", "Total",
                     "Percentage", "Grade">>
TopN == 5

Range(s) == {s[i] : i \in 1..Len(s)}

SampleColumns == {"Student_ID", "Name", "Class", "Gender", "Math", "Science",
                  "English", "Total", "Percentage", "Grade"}

(* Lexicographic rank of the labels that are used as group keys; groupby   *)
(* sorts its keys.                                                         *)
KeyRank(k) ==
    CASE k = "10A" -> 1
      [] k = "10B" -> 2
      [] k = "English" -> 3
      [] k = "Math" -> 4
      [] k = "Science" -> 5

-----------------------------------------------------------------------------
(* pandas operations used by the script.                                   *)

RECURSIVE SumSeq(_)
SumSeq(s) == IF s = <<>> THEN 0 ELSE Head(s) + SumSeq(Tail(s))

Column(rows, c) == [i \in 1..Len(rows) |-> rows[i][c]]

(* round half to even of a / b, for a >= 0 and b > 0 *)
RoundDiv(a, b) ==
    LET q == a \div b
        r == a % b
    IN  IF 2 * r < b THEN q
        ELSE IF 2 * r > b THEN q + 1
        ELSE IF q % 2 = 0 THEN q ELSE q + 1

(* Series.mean() of integer cells: the exact mean, NaN for no cells *)
Mean(cells) ==
    IF Len(cells) = 0 THEN NaN ELSE [num |-> SumSeq(cells), den |-> Len(cells)]

(* .round(2) of a mean of integers *)
Round2(m) ==
    IF ~IsNumber(m) THEN NaN ELSE Hundredths(RoundDiv(100 * m.num, m.den))

(* .round(2) of a mean of cells that are given in hundredths *)
Round2Hundredths(m) ==
    IF ~IsNumber(m) THEN NaN ELSE Hundredths(RoundDiv(m.num, m.den))

MissingFrom(frame, cols) == {c \in Range(cols) : c \notin frame.columns}

KeyError(cols) == [kind |-> "KeyError", columns |-> cols]

(* DataFrame.melt(id_vars, value_vars, var_name='Subject',                  *)
(* value_name='Score'): the value columns are stacked one after the other, *)
(* each block holding the frame's rows in their order.                     *)
LongRowFirstValueColumn(row, subject) ==
    [c \in Range(id_vars) \cup {"Subject", "Score"} |->
        IF c = "Subject" THEN subject
        ELSE IF c = "Score" THEN row[value_vars[1]]
        ELSE row[c]]

LongRow(row, subject) ==
    [c \in Range(id_vars) \cup {"Subject", "Score"} |->
        IF c = "Subject" THEN subject
        ELSE IF c = "Score" THEN row[subject]
        ELSE row[c]]

meltRowMajor(rows) ==
    LET S == Len(value_vars)
    IN  [k \in 1..(S * Len(rows)) |->
            LongRow(rows[((k - 1) \div S) + 1], value_vars[((k - 1) % S) + 1])]

melt(rows) ==
    LET R == Len(rows)
    IN  [k \in 1..(Len(value_vars) * R) |->
            LongRow(rows[((k - 1) % R) + 1], value_vars[((k - 1) \div R) + 1])]

(* Series.value_counts(): occurrences of each value that occurs *)
value_counts(cells) ==
    [v \in Range(cells) |-> Cardinality({i \in 1..Len(cells) : cells[i] = v})]

(* Series.reindex(labels): the entry of each label, NaN for a label the    *)
(* series does not have; entries under other labels are dropped.           *)
reindex(counts, labels) ==
    [i \in 1..Len(labels) |->
        [label |-> labels[i],
         count |-> IF labels[i] \in DOMAIN counts
                   THEN Number(counts[labels[i]]) ELSE NaN]]

(* The keys of a group-by, sorted. *)
SortedKeys(keys) ==
    [k \in 1..Cardinality(keys) |->
        CHOOSE x \in keys :
            Cardinality({y \in keys : KeyRank(y) < KeyRank(x)}) = k - 1]

(* df_long.groupby('Subject')['Score'].mean().reset_index() *)
groupby_subject_mean(long) ==
    LET keys == SortedKeys({long[i]["Subject"] : i \in 1..Len(long)})
    IN  [k \in 1..Len(keys) |->
            [Subject |-> keys[k],
             Score |-> Mean(Column(SelectSeq(long,
                           LAMBDA r : r["Subject"] = keys[k]), "Score"))]]

(* df.groupby('Class')['Percentage'].agg(['mean', 'count']).round(2) *)
groupby_class_performance(rows) ==
    LET keys == SortedKeys({rows[i]["Class"] : i \in 1..Len(rows)})
    IN  [k \in 1..Len(keys) |->
            LET members == SelectSeq(rows, LAMBDA r : r["Class"] = keys[k])
            IN  [Class |-> keys[k],
                 AveragePercentage |->
                     Round2Hundredths(Mean(Column(members, "Percentage"))),
                 NumberOfStudents |-> Number(Len(members))]]

(* Pearson correlation of two columns, kept exact: the coefficient is      *)
(* cov / sqrt(vx * vy); it is undefined (all zero) when a variance is 0.   *)
Pearson(x, y) ==
    LET n == Len(x)
        sx == SumSeq(x)
        sy == SumSeq(y)
        sxy == SumSeq([i \in 1..n |-> x[i] * y[i]])
        sxx == SumSeq([i \in 1..n |-> x[i] * x[i]])
        syy == SumSeq([i \in 1..n |-> y[i] * y[i]])
        vx == n * sxx - sx * sx
        vy == n * syy - sy * sy
    IN  IF vx = 0 \/ vy = 0 THEN [cov |-> 0, vx |-> 0, vy |-> 0]
        ELSE [cov |-> n * sxy - sx * sy, vx |-> vx, vy |-> vy]

corr(rows, cols) ==
    [a \in Range(cols) |-> [b \in Range(cols) |->
        Pearson(Column(rows, a), Column(rows, b))]]

(* Row positions ordered by a key column, rows of equal key in their input *)
(* order (keep='first'); largest first when descending.                    *)
Precedes(cells, descending, j, i) ==
    \/ IF descending THEN cells[j] > cells[i] ELSE cells[j] < cells[i]
    \/ cells[j] = cells[i] /\ j < i

RankedPositions(cells, descending) ==
    [k \in 1..Len(cells) |->
        CHOOSE i \in 1..Len(cells) :
            Cardinality({j \in 1..Len(cells) :
                Precedes(cells, descending, j, i)}) = k - 1]

Min(a, b) == IF a < b THEN a ELSE b

(* frame[columns] of the selected rows, each under its index label *)
TakeRows(rows, positions, cols) ==
    [k \in 1..Len(positions) |->
        [index |-> positions[k] - 1,
         cells |-> [c \in Range(cols) |-> rows[positions[k]][c]]]]

(* df.nlargest(n, key)[cols] and df.nsmallest(n, key)[cols] *)
PrecedesKeepLast(cells, j, i) ==
    \/ cells[j] > cells[i]
    \/ cells[j] = cells[i] /\ j > i

nlargestKeepLast(rows, n, key, cols) ==
    LET cells == Column(rows, key)
        ranked == [k \in 1..Len(cells) |->
                     CHOOSE i \in 1..Len(cells) :
                         Cardinality({j \in 1..Len(cells) :
                             PrecedesKeepLast(cells, j, i)}) = k - 1]
    IN  TakeRows(rows, SubSeq(ranked, 1, Min(n, Len(rows))), cols)

nsmallestDescending(rows, n, key, cols) ==
    TakeRows(rows,
             SubSeq(RankedPositions(Column(rows, key), TRUE), 1,
                    Min(n, Len(rows))),
             cols)

nlargest(rows, n, key, cols) ==
    TakeRows(rows,
             SubSeq(RankedPositions(Column(rows, key), TRUE), 1,
                    Min(n, Len(rows))),
             cols)

nsmallest(rows, n, key, cols) ==
    TakeRows(rows,
             SubSeq(RankedPositions(Column(rows, key), FALSE), 1,
                    Min(n, Len(rows))),
             cols)

-----------------------------------------------------------------------------
(* One run of the script.                                                  *)

Frame == Val(df)
Rows == Frame.rows

Show(what, value) == [what |-> what, value |-> value]

Fail(shown_so_far, missing) ==
    /\ pc' = "failed"
    /\ error' = Some(KeyError(missing))
    /\ shown' = shown_so_far

(* A run starts with an empty namespace and an empty page. *)
FreshRun ==
    /\ pc' = "start"
    /\ shown' = <<>>
    /\ error' = None
    /\ df' = None
    /\ avg_percentage' = None
    /\ df_long' = None
    /\ subject_corr' = None
    /\ grade_counts' = None
    /\ subject_avgs' = None
    /\ top_students' = None
    /\ bottom_students' = None
    /\ selected_student' = None
    /\ student_data' = None
    /\ class_avg' = None
    /\ student_info' = None
    /\ profile_chart' = None
    /\ class_performance' = None
    /\ report' = None

(* A rerun that starts on the namespace and the page of the run before. *)
RerunKeepingNamespace(file) ==
    /\ pc \in {"done", "failed"}
    /\ uploaded_file' = file
    /\ earlier_upload' = uploaded_file
    /\ pc' = "start"
    /\ error' = None
    /\ UNCHANGED <<shown, derived>>

(* The user uploads another file or clears the uploader: Streamlit runs    *)
(* the script again from the top.                                          *)
Rerun(file) ==
    /\ pc \in {"done", "failed"}
    /\ uploaded_file' = file
    /\ earlier_upload' = uploaded_file
    /\ FreshRun

(* if uploaded_file is not None: df = pd.read_csv(uploaded_file) *)
ReadUpload ==
    /\ pc = "start"
    /\ uploaded_file # None
    /\ df' = Some(Val(uploaded_file))
    /\ pc' = "overview"
    /\ UNCHANGED <<uploaded_file, earlier_upload,
                   shown, error, avg_percentage, df_long,
                   subject_corr, grade_counts, subject_avgs, top_students,
                   bottom_students, selected_student, student_data, class_avg,
                   student_info, profile_chart, class_performance, report>>

(* else: the hint and the static sample table *)
sample_df ==
    << [Student_ID |-> 1, Name |-> "John Doe", Class |-> "10A",
        Gender |-> "Male", Math |-> 85, Science |-> 88, English |-> 82,
        Total |-> 255, Percentage |-> 8500, Grade |-> "A"],
       [Student_ID |-> 2, Name |-> "Jane Smith", Class |-> "10B",
        Gender |-> "Female", Math |-> 92, Science |-> 95, English |-> 88,
        Total |-> 275, Percentage |-> 9170, Grade |-> "A+"],
       [Student_ID |-> 3, Name |-> "Bob Johnson", Class |-> "10A",
        Gender |-> "Male", Math |-> 78, Science |-> 72, English |-> 75,
        Total |-> 225, Percentage |-> 7500, Grade |-> "B"] >>

ShowSample ==
    /\ pc = "start"
    /\ uploaded_file = None
    /\ shown' = <<Show("info", None), Show("sample_df", sample_df)>>
    /\ pc' = "done"
    /\ UNCHANGED <<uploaded_file, earlier_upload,
                   error, df, avg_percentage, df_long,
                   subject_corr, grade_counts, subject_avgs, top_students,
                   bottom_students, selected_student, student_data, class_avg,
                   student_info, profile_chart, class_performance, report>>

(* Dataset Overview: four metric cards and the optional raw table *)
Overview ==
    /\ pc = "overview"
    /\ LET total == <<Show("Total Students", Len(Rows))>>
           classes == <<Show("Number of Classes",
                            Cardinality(Range(Column(Rows, "Class"))))>>
           columns == <<Show("Data Columns", Cardinality(Frame.columns))>>
       IN  IF "Class" \notin Frame.columns
           THEN Fail(shown \o total, {"Class"})
                /\ UNCHANGED avg_percentage
           ELSE IF "Percentage" \notin Frame.columns
           THEN Fail(shown \o total \o classes \o columns, {"Percentage"})
                /\ UNCHANGED avg_percentage
           ELSE \E show_raw_data \in BOOLEAN :
                LET avg == Round2Hundredths(Mean(Column(Rows, "Percentage")))
                IN  /\ avg_percentage' = Some(avg)
                    /\ shown' = shown \o total \o classes \o columns
                                 \o <<Show("Average Percentage", avg)>>
                                 \o (IF show_raw_data
                                     THEN <<Show("raw data", Rows)>>
                                     ELSE <<>>)
                    /\ pc' = "reshape"
                    /\ UNCHANGED error
    /\ UNCHANGED <<uploaded_file, earlier_upload,
                   df, df_long, subject_corr, grade_counts,
                   subject_avgs, top_students, bottom_students,
                   selected_student, student_data, class_avg, student_info,
                   profile_chart, class_performance, report>>

(* Convert to long format.  melt raises KeyError for columns that are not  *)
(* in the frame: the missing id_vars, else the missing value_vars; newer   *)
(* pandas names both kinds at once.                                        *)
Reshape ==
    /\ pc = "reshape"
    /\ LET no_id == MissingFrom(Frame, id_vars)
           no_value == MissingFrom(Frame, value_vars)
       IN  IF no_id \cup no_value # {}
           THEN /\ \E named \in {IF no_id # {} THEN no_id ELSE no_value,
                                  no_id \cup no_value} :
                       Fail(shown, named)
                /\ UNCHANGED df_long
           ELSE /\ df_long' = Some(melt(Rows))
                /\ pc' = "charts"
                /\ UNCHANGED <<shown, error>>
    /\ UNCHANGED <<uploaded_file, earlier_upload,
                   df, avg_percentage, subject_corr,
                   grade_counts, subject_avgs, top_students, bottom_students,
                   selected_student, student_data, class_avg, student_info,
                   profile_chart, class_performance, report>>

(* Performance Analysis: box plots, correlation heatmap, grade bar chart *)
PerformanceCharts ==
    /\ pc = "charts"
    /\ LET boxes == <<Show("Score Distribution by Subject", Val(df_long)),
                      Show("Performance by Gender", Val(df_long))>>
           matrix == corr(Rows, value_vars)
           heatmap == <<Show("Subject Correlation Heatmap", matrix)>>
       IN  /\ subject_corr' = Some(matrix)
           /\ IF "Grade" \notin Frame.columns
              THEN Fail(shown \o boxes \o heatmap, {"Grade"})
                   /\ UNCHANGED grade_counts
              ELSE LET counts == reindex(value_counts(Column(Rows, "Grade")),
                                         grade_order)
                   IN  /\ grade_counts' = Some(counts)
                       /\ shown' = shown \o boxes \o heatmap
                                    \o <<Show("Grade Distribution", counts)>>
                       /\ pc' = "averages"
                       /\ UNCHANGED error
    /\ UNCHANGED <<uploaded_file, earlier_upload,
                   df, avg_percentage, df_long, subject_avgs,
                   top_students, bottom_students, selected_student,
                   student_data, class_avg, student_info, profile_chart,
                   class_performance, report>>

(* Subject Averages: df[['Math', 'Science', 'English']].mean().round(2) *)
SubjectMeans(rows) ==
    [c \in Range(value_vars) |-> Round2(Mean(Column(rows, c)))]

SubjectAverages ==
    /\ pc = "averages"
    /\ subject_avgs' = Some(SubjectMeans(Rows))
    /\ shown' = shown \o [i \in 1..Len(value_vars) |->
                    Show(value_vars[i], SubjectMeans(Rows)[value_vars[i]])]
    /\ pc' = "ranking"
    /\ UNCHANGED <<uploaded_file, earlier_upload,
                   error, df, avg_percentage, df_long,
                   subject_corr, grade_counts, top_students, bottom_students,
                   selected_student, student_data, class_avg, student_info,
                   profile_chart, class_performance, report>>

(* Top 5 and Bottom 5 Performers *)
TopBottom ==
    /\ pc = "ranking"
    /\ LET missing == MissingFrom(Frame, ranking_columns)
       IN  IF missing # {}
           THEN Fail(shown, missing)
                /\ UNCHANGED <<top_students, bottom_students>>
           ELSE LET top == nlargest(Rows, TopN, "Percentage", ranking_columns)
                    bottom == nsmallest(Rows, TopN, "Percentage",
                                        ranking_columns)
                IN  /\ top_students' = Some(top)
                    /\ bottom_students' = Some(bottom)
                    /\ shown' = shown \o <<Show("Top 5 Performers", top),
                                           Show("Bottom 5 Performers", bottom)>>
                    /\ pc' = "profile"
                    /\ UNCHANGED error
    /\ UNCHANGED <<uploaded_file, earlier_upload,
                   df, avg_percentage, df_long, subject_corr,
                   grade_counts, subject_avgs, selected_student, student_data,
                   class_avg, student_info, profile_chart, class_performance,
                   report>>

(* student_data, class_avg and student_info of the selected name *)
StudentData(long, name) == SelectSeq(long, LAMBDA r : r["Name"] = name)

StudentInfo(rows, name) ==
    rows[CHOOSE i \in 1..Len(rows) :
            /\ rows[i]["Name"] = name
            /\ \A j \in 1..(i - 1) : rows[j]["Name"] # name]

(* The profile figure.  The bars put the subjects of class_avg on the      *)
(* category axis at 0, 1, 2; the line is drawn by subject name on that     *)
(* axis; both loops of value labels write label i at x = i.                *)
CategoryPosition(avgs, subject) ==
    (CHOOSE k \in 1..Len(avgs) : avgs[k].Subject = subject) - 1

ProfileChart(data, avgs) ==
    [bars |-> [k \in 1..Len(avgs) |->
                  [x |-> k - 1, subject |-> avgs[k].Subject,
                   height |-> avgs[k].Score]],
     line |-> [k \in 1..Len(data) |->
                  [x |-> CategoryPosition(avgs, data[k]["Subject"]),
                   subject |-> data[k]["Subject"],
                   y |-> data[k]["Score"]]],
     avg_labels |-> [k \in 1..Len(avgs) |->
                  [x |-> k - 1, subject |-> avgs[k].Subject,
                   tenths |-> RoundDiv(10 * avgs[k].Score.num,
                                       avgs[k].Score.den)]],
     score_labels |-> [k \in 1..Len(data) |->
                  [x |-> k - 1, subject |-> data[k]["Subject"],
                   text |-> data[k]["Score"]]]]

(* Individual Student Profile: the select box offers df['Name'] *)
Profile ==
    /\ pc = "profile"
    /\ \E name \in Range(Column(Rows, "Name")) :
        LET data == StudentData(Val(df_long), name)
            avgs == groupby_subject_mean(Val(df_long))
            info == StudentInfo(Rows, name)
            chart == ProfileChart(data, avgs)
        IN  /\ selected_student' = Some(name)
            /\ student_data' = Some(data)
            /\ class_avg' = Some(avgs)
            /\ student_info' = Some(info)
            /\ profile_chart' = Some(chart)
            /\ shown' = shown \o <<Show("Performance Profile", chart),
                                   Show("Student Details",
                                        [info |-> info,
                                         averages |-> Val(subject_avgs)])>>
    /\ pc' = "report"
    /\ UNCHANGED <<uploaded_file, earlier_upload,
                   error, df, avg_percentage, df_long,
                   subject_corr, grade_counts, subject_avgs, top_students,
                   bottom_students, class_performance, report>>

(* Download Report: the workbook with its four sheets *)
Sheet(ranked) == [k \in 1..Len(ranked) |-> ranked[k].cells]

DownloadReport ==
    /\ pc = "report"
    /\ LET performance == groupby_class_performance(Rows)
           workbook == [RawData |-> Rows,
                        TopPerformers |-> Sheet(Val(top_students)),
                        BottomPerformers |-> Sheet(Val(bottom_students)),
                        ClassPerformance |-> performance]
       IN  /\ class_performance' = Some(performance)
           /\ report' = Some(workbook)
           /\ shown' = shown \o <<Show("Download Full Analysis Report",
                                        workbook)>>
    /\ pc' = "done"
    /\ UNCHANGED <<uploaded_file, earlier_upload,
                   error, df, avg_percentage, df_long,
                   subject_corr, grade_counts, subject_avgs, top_students,
                   bottom_students, selected_student, student_data, class_avg,
                   student_info, profile_chart>>

-----------------------------------------------------------------------------
(* Uploaded files the runs are checked on.                                 *)

MaxStudents == 2
MaxDerivedRows == 2
MaxGradeRows == 3
MaxTieRows == 5
MaxRunRows == 1
MaxScore == 100

(* Total and Percentage (in hundredths) as the subject scores give them *)
TotalOf(row) == row["Math"] + row["Science"] + row["English"]
PercentageOf(row) ==
    RoundDiv(TotalOf(row) * 10000, Len(value_vars) * MaxScore)

ClassOf(i) == IF i % 2 = 1 THEN "10A" ELSE "10B"
GenderOf(i) == IF i % 2 = 1 THEN "Male" ELSE "Female"

CsvRow(i, name, scores, total, percentage, grade) ==
    [Student_ID |-> i, Name |-> name, Class |-> ClassOf(i),
     Gender |-> GenderOf(i), Math |-> scores[1], Science |-> scores[2],
     English |-> scores[3], Total |-> total, Percentage |-> percentage,
     Grade |-> grade]

ConsistentRow(i, name, scores, grade) ==
    LET t == scores[1] + scores[2] + scores[3]
    IN  CsvRow(i, name, scores, t,
               RoundDiv(t * 10000, Len(value_vars) * MaxScore), grade)

Csv(rows) == [columns |-> SampleColumns, rows |-> rows]

Choices(lo, hi, S) == UNION {[1..n -> S] : n \in lo..hi}

(* a session's uploads: one name, varying scores *)
RunFiles ==
    {Csv([i \in 1..Len(ch) |-> ConsistentRow(i, "Ann", ch[i], "A")]) :
        ch \in Choices(1, MaxRunRows, {70, 90} \X {80, 90} \X {60, 90})}

(* students who may share a name, with varying scores *)
ProfileChoice == [name : {"Ann", "Bob"},
                  scores : {70, 90} \X {80, 90} \X {60, 90}]

ProfileFiles(max) ==
    {Csv([i \in 1..Len(ch) |->
            ConsistentRow(i, ch[i].name, ch[i].scores, "A")]) :
        ch \in Choices(1, max, ProfileChoice)}

(* the sample rows with any subset of the columns *)
SchemaFiles ==
    {[columns |-> cols,
      rows |-> [i \in 1..Len(sample_df) |->
                   [c \in cols |-> sample_df[i][c]]]] :
        cols \in SUBSET SampleColumns}

(* derived columns that agree or disagree with the scores *)
DerivedChoice == [math : {70, 90}, total : {0, 300}, percentage : {0, 10000}]

DerivedFiles ==
    {Csv([i \in 1..Len(ch) |->
            LET scores == <<ch[i].math, 80, 90>>
                t == ch[i].math + 170
            IN  CsvRow(i, "Ann", scores,
                       IF ch[i].total = 0 THEN t ELSE ch[i].total,
                       IF ch[i].percentage = 0
                       THEN RoundDiv(t * 10000, Len(value_vars) * MaxScore)
                       ELSE ch[i].percentage,
                       "A")]) :
        ch \in Choices(1, MaxDerivedRows, DerivedChoice)}

(* any grade label, also one outside the vocabulary *)
GradeFiles ==
    {Csv([i \in 1..Len(ch) |-> ConsistentRow(i, "Ann", <<70, 80, 90>>, ch[i])]) :
        ch \in Choices(1, MaxGradeRows, Range(grade_order) \cup {"E"})}

(* students with few distinct percentages: short files, and files of at   *)
(* least 2 * TopN rows that end with two students of each percentage       *)
RankRow(i, score) == ConsistentRow(i, "Ann", <<score, score, score>>, "A")

RankScores == {60, 75, 90}
RankTail == <<60, 60, 75, 75, 90, 90>>

RankFiles ==
    {Csv([i \in 1..Len(ch) |-> RankRow(i, ch[i])]) :
        ch \in Choices(1, MaxTieRows, RankScores)
                \cup {free \o RankTail :
                         free \in Choices(2 * TopN - Len(RankTail), MaxTieRows,
                                          RankScores)}}

Uploads(files) == {None} \cup {Some(f) : f \in files}

-----------------------------------------------------------------------------

InitWith(files) ==
    /\ uploaded_file \in Uploads(files)
    /\ earlier_upload = None
    /\ pc = "start"
    /\ shown = <<>>
    /\ error = None
    /\ df = None
    /\ avg_percentage = None
    /\ df_long = None
    /\ subject_corr = None
    /\ grade_counts = None
    /\ subject_avgs = None
    /\ top_students = None
    /\ bottom_students = None
    /\ selected_student = None
    /\ student_data = None
    /\ class_avg = None
    /\ student_info = None
    /\ profile_chart = None
    /\ class_performance = None
    /\ report = None

(* One run of the script on the file the uploader holds. *)
Run ==
    \/ ReadUpload
    \/ ShowSample
    \/ Overview
    \/ Reshape
    \/ PerformanceCharts
    \/ SubjectAverages
    \/ TopBottom
    \/ Profile
    \/ DownloadReport

(* A session: the first run finds no upload; every change of the uploader  *)
(* starts another run.                                                     *)
Init == InitWith({})

Next ==
    \/ Run
    \/ \E file \in Uploads(RunFiles) : Rerun(file)

Spec == Init /\ [][Next]_vars

(* Single runs, one specification per family of uploaded files. *)
SpecProfile == InitWith(ProfileFiles(MaxStudents)) /\ [][Run]_vars
SpecSchema == InitWith(SchemaFiles) /\ [][Run]_vars
SpecDerived == InitWith(DerivedFiles) /\ [][Run]_vars
SpecGrades == InitWith(GradeFiles) /\ [][Run]_vars
SpecRank == InitWith(RankFiles) /\ [][Run]_vars

-----------------------------------------------------------------------------
(* Properties of the reshape step and of the student profile, checked      *)
(* under SpecProfile.                                                      *)

Long == Val(df_long)
SubjectIndex(subject) ==
    CHOOSE s \in 1..Len(value_vars) : value_vars[s] = subject
RowOfStudent(id) == CHOOSE i \in 1..Len(Rows) : Rows[i]["Student_ID"] = id

(* C1 as stated: the long table is in row-major order records x subjects,  *)
(* long row k being (student k div 3, subject k mod 3).                    *)
C1_RowMajorOrder ==
    df_long # None =>
        \A k \in 1..Len(Long) :
            /\ Long[k]["Student_ID"]
                  = Rows[((k - 1) \div 3) + 1]["Student_ID"]
            /\ Long[k]["Subject"] = value_vars[((k - 1) % 3) + 1]

(* C1 amended: the long table has one row per student and subject and is   *)
(* ordered subject by subject: every entry of an earlier subject of        *)
(* (Math, Science, English) comes before every entry of a later one, and   *)
(* within one subject the students keep their input order.                 *)
C1_SubjectMajorOrder ==
    df_long # None =>
        /\ Len(Long) = Len(value_vars) * Len(Rows)
        /\ \A a, b \in 1..Len(Long) :
              a < b =>
                LET sa == SubjectIndex(Long[a]["Subject"])
                    sb == SubjectIndex(Long[b]["Subject"])
                IN  \/ sa < sb
                    \/ /\ sa = sb
                       /\ RowOfStudent(Long[a]["Student_ID"])
                            < RowOfStudent(Long[b]["Student_ID"])

C1_Witness ==
    /\ df_long # None
    /\ Len(Rows) >= 2
    /\ Long[2]["Student_ID"] = Rows[2]["Student_ID"]
    /\ Long[2]["Subject"] = value_vars[1]

(* C9: with unique Student_IDs, grouping the long table by student and     *)
(* subject gives exactly one entry per pair, carrying the score of that    *)
(* subject's column in that student's row, and no other entries.           *)
C9_RoundTrip ==
    df_long # None =>
        /\ \A i \in 1..Len(Rows) : \A s \in 1..Len(value_vars) :
              LET group == {k \in 1..Len(Long) :
                              /\ Long[k]["Student_ID"] = Rows[i]["Student_ID"]
                              /\ Long[k]["Subject"] = value_vars[s]}
              IN  /\ Cardinality(group) = 1
                  /\ \A k \in group : Long[k]["Score"] = Rows[i][value_vars[s]]
        /\ \A k \in 1..Len(Long) :
              /\ Long[k]["Subject"] \in Range(value_vars)
              /\ \E i \in 1..Len(Rows) :
                    \A c \in Range(id_vars) : Long[k][c] = Rows[i][c]

C9_Witness ==
    /\ df_long # None
    /\ Len(Rows) = 2
    /\ Rows[1]["Math"] # Rows[1]["English"]
    /\ Rows[1]["Math"] # Rows[2]["Math"]

(* C2: the profile holds exactly the long-table entries of one student     *)
(* identifier, one per subject, compared with the averages over the whole  *)
(* dataset, also when two Student_IDs carry the same Name.                 *)
C2_ProfileOfOneStudent ==
    student_data # None =>
        LET data == Val(student_data)
            id == Val(student_info)["Student_ID"]
        IN  /\ Len(data) = Len(value_vars)
            /\ \A k \in 1..Len(data) : data[k]["Student_ID"] = id
            /\ \A k \in 1..Len(Val(class_avg)) :
                  Val(class_avg)[k].Score
                    = Mean(Column(Rows, Val(class_avg)[k].Subject))

(* C3: the student's scores and the cohort averages are both in the        *)
(* reshaper's subject order, so series and value labels at one position    *)
(* refer to one subject.                                                   *)
C3_SeriesAligned ==
    profile_chart # None =>
        LET chart == Val(profile_chart)
        IN  /\ \A i \in 1..Len(value_vars) :
                  /\ Val(student_data)[i]["Subject"] = value_vars[i]
                  /\ Val(class_avg)[i].Subject = value_vars[i]
            /\ \A i \in 1..Len(chart.score_labels) :
                  \A j \in 1..Len(chart.bars) :
                     chart.score_labels[i].x = chart.bars[j].x =>
                        chart.score_labels[i].subject = chart.bars[j].subject

-----------------------------------------------------------------------------
(* Schema, derived columns and grade counts.                               *)

NoAggregate ==
    /\ avg_percentage = None
    /\ df_long = None
    /\ subject_corr = None
    /\ grade_counts = None
    /\ subject_avgs = None
    /\ top_students = None
    /\ bottom_students = None
    /\ class_performance = None

(* C4 (SpecSchema): a run on a file that lacks a required column computes  *)
(* no aggregate at all, never completes, and ends with an error that names *)
(* a missing column.                                                       *)
C4_SchemaErrorBeforeAggregates ==
    (df # None /\ Frame.columns # SampleColumns) =>
        /\ NoAggregate
        /\ pc # "done"
        /\ pc = "failed" =>
              /\ error # None
              /\ Val(error).columns # {}
              /\ Val(error).columns \subseteq SampleColumns \ Frame.columns

Consistent(row) ==
    /\ row["Total"] = TotalOf(row)
    /\ row["Percentage"] = PercentageOf(row)

(* C5 (SpecDerived): every record that is ranked or shown in the details   *)
(* card has Total = Math + Science + English and Percentage = Total /      *)
(* (3 x max_score) x 100, and the average percentage and the class         *)
(* performance are those of the recomputed percentages.                    *)
C5_DerivedRecomputed ==
    /\ top_students # None =>
          \A k \in 1..Len(Val(top_students)) :
              Consistent(Val(top_students)[k].cells)
    /\ bottom_students # None =>
          \A k \in 1..Len(Val(bottom_students)) :
              Consistent(Val(bottom_students)[k].cells)
    /\ student_info # None => Consistent(Val(student_info))
    /\ avg_percentage # None =>
          Val(avg_percentage)
            = Round2Hundredths(Mean([i \in 1..Len(Rows) |->
                                        PercentageOf(Rows[i])]))
    /\ class_performance # None =>
          Val(class_performance)
            = groupby_class_performance(
                  [i \in 1..Len(Rows) |->
                      [Rows[i] EXCEPT !["Percentage"] = PercentageOf(Rows[i])]])

(* C6 (SpecGrades): the counts of the grade vocabulary are numbers and     *)
(* their sum is the number of rows of the dataset.                         *)
C6_GradeCountsSum ==
    grade_counts # None =>
        LET counts == Val(grade_counts)
        IN  /\ Len(counts) = Len(grade_order)
            /\ \A i \in 1..Len(counts) : IsNumber(counts[i].count)
            /\ SumSeq([i \in 1..Len(counts) |-> counts[i].count.num])
                  = Len(Rows)

-----------------------------------------------------------------------------
(* Rankings, checked under SpecRank.                                       *)

Pct == Column(Rows, "Percentage")
Picked(ranked) == {ranked[k].index + 1 : k \in 1..Len(ranked)}

(* ranked lists rows best first (larger first when descending), rows of    *)
(* equal Percentage in input order, and of the rows that tie at the cutoff *)
(* it holds the earliest.                                                  *)
StableSelection(ranked, descending) ==
    /\ Len(ranked) = Min(TopN, Len(Rows))
    /\ Cardinality(Picked(ranked)) = Len(ranked)
    /\ \A k \in 1..Len(ranked) :
          ranked[k].cells["Percentage"] = Pct[ranked[k].index + 1]
    /\ \A k, l \in 1..Len(ranked) :
          k < l =>
            LET a == ranked[k].cells["Percentage"]
                b == ranked[l].cells["Percentage"]
            IN  \/ IF descending THEN a > b ELSE a < b
                \/ a = b /\ ranked[k].index < ranked[l].index
    /\ \A i \in Picked(ranked) : \A j \in (1..Len(Rows)) \ Picked(ranked) :
          \/ IF descending THEN Pct[i] > Pct[j] ELSE Pct[i] < Pct[j]
          \/ Pct[i] = Pct[j] /\ i < j

(* C7: the top-5 and the bottom-5 selection keep records of equal          *)
(* Percentage in their input order, and when the cutoff falls inside a     *)
(* group of tied records the earliest of them are the ones selected.       *)
C7_StableTieBreak ==
    /\ top_students # None => StableSelection(Val(top_students), TRUE)
    /\ bottom_students # None => StableSelection(Val(bottom_students), FALSE)

C7_Witness ==
    /\ top_students # None
    /\ Len(Rows) > TopN
    /\ \E j \in (1..Len(Rows)) \ Picked(Val(top_students)) :
          /\ Pct[j] = Val(top_students)[TopN].cells["Percentage"]
          /\ \E i \in Picked(Val(top_students)) : Pct[i] > Pct[j]
    /\ \E j \in (1..Len(Rows)) \ Picked(Val(bottom_students)) :
          Pct[j] = Val(bottom_students)[TopN].cells["Percentage"]

(* the k-th largest and the k-th smallest value of a column *)
KthLargest(cells, k) ==
    CHOOSE v \in Range(cells) :
        /\ Cardinality({i \in 1..Len(cells) : cells[i] > v}) < k
        /\ Cardinality({i \in 1..Len(cells) : cells[i] >= v}) >= k

KthSmallest(cells, k) ==
    CHOOSE v \in Range(cells) :
        /\ Cardinality({i \in 1..Len(cells) : cells[i] < v}) < k
        /\ Cardinality({i \in 1..Len(cells) : cells[i] =< v}) >= k

NoTieAcrossBoundaries ==
    KthLargest(Pct, TopN) # KthSmallest(Pct, TopN)

-----------------------------------------------------------------------------
(* Runs of a session, checked under Spec.                                  *)

File == Val(uploaded_file)

(* everything a run on the rows of the uploaded file derives, as far as    *)
(* the run has come                                                        *)
FromCurrentUpload ==
    /\ df \in {None, uploaded_file}
    /\ avg_percentage \in
          {None, Some(Round2Hundredths(Mean(Column(File.rows, "Percentage"))))}
    /\ df_long \in {None, Some(melt(File.rows))}
    /\ subject_corr \in {None, Some(corr(File.rows, value_vars))}
    /\ grade_counts \in
          {None, Some(reindex(value_counts(Column(File.rows, "Grade")),
                              grade_order))}
    /\ subject_avgs \in {None, Some(SubjectMeans(File.rows))}
    /\ top_students \in
          {None, Some(nlargest(File.rows, TopN, "Percentage", ranking_columns))}
    /\ bottom_students \in
          {None, Some(nsmallest(File.rows, TopN, "Percentage", ranking_columns))}
    /\ selected_student # None =>
          /\ Val(selected_student) \in Range(Column(File.rows, "Name"))
          /\ student_data = Some(StudentData(melt(File.rows),
                                              Val(selected_student)))
          /\ class_avg = Some(groupby_subject_mean(melt(File.rows)))
          /\ student_info = Some(StudentInfo(File.rows, Val(selected_student)))
          /\ profile_chart = Some(ProfileChart(Val(student_data),
                                               Val(class_avg)))
    /\ selected_student = None =>
          /\ student_data = None
          /\ class_avg = None
          /\ student_info = None
          /\ profile_chart = None
    /\ class_performance \in {None, Some(groupby_class_performance(File.rows))}
    /\ report # None =>
          Val(report) = [RawData |-> File.rows,
                         TopPerformers |-> Sheet(Val(top_students)),
                         BottomPerformers |-> Sheet(Val(bottom_students)),
                         ClassPerformance |-> Val(class_performance)]

NothingDerived == \A i \in 1..Len(derived) : derived[i] = None

(* what the page shows comes from the structures of this run *)
PageOfThisRun ==
    \A i \in 1..Len(shown) :
        /\ shown[i].what = "Total Students" => shown[i].value = Len(File.rows)
        /\ shown[i].what = "Average Percentage" =>
              shown[i].value = Val(avg_percentage)
        /\ shown[i].what = "raw data" => shown[i].value = File.rows
        /\ shown[i].what = "Score Distribution by Subject" =>
              shown[i].value = Val(df_long)
        /\ shown[i].what = "Subject Correlation Heatmap" =>
              shown[i].value = Val(subject_corr)
        /\ shown[i].what = "Grade Distribution" =>
              shown[i].value = Val(grade_counts)
        /\ shown[i].what \in Range(value_vars) =>
              shown[i].value = Val(subject_avgs)[shown[i].what]
        /\ shown[i].what = "Top 5 Performers" =>
              shown[i].value = Val(top_students)
        /\ shown[i].what = "Bottom 5 Performers" =>
              shown[i].value = Val(bottom_students)
        /\ shown[i].what = "Performance Profile" =>
              shown[i].value = Val(profile_chart)
        /\ shown[i].what = "Student Details" =>
              shown[i].value.info = Val(student_info)
        /\ shown[i].what = "Download Full Analysis Report" =>
              shown[i].value = Val(report)
        /\ shown[i].what \notin {"info", "sample_df"}

(* C10: in every run of a session, what exists and what is visible is      *)
(* derived from the file of that run alone; a run starts from nothing, and *)
(* a run without an upload derives nothing and shows only the sample.      *)
C10_FreshPerRun ==
    /\ pc = "start" => NothingDerived /\ shown = <<>>
    /\ uploaded_file = None =>
          /\ NothingDerived
          /\ \A i \in 1..Len(shown) : shown[i].what \in {"info", "sample_df"}
    /\ uploaded_file # None => FromCurrentUpload /\ PageOfThisRun

C10_Witness ==
    /\ earlier_upload # None
    /\ uploaded_file # None
    /\ earlier_upload # uploaded_file
    /\ pc = "done"
    /\ report # None

====
